---- MODULE Spec2Model ----
(***************************************************************************)
(* Model of go-selenium: the Driver process supervisor (Start, Stop and    *)
(* the printLogs output-scan goroutine) and the Session error log.         *)
(*                                                                         *)
(* The specifications share the variables:                                 *)
(*   Spec         the Driver, its child process and the scan goroutine;    *)
(*   SessionSpec  the Session methods of session.go;                       *)
(*   ConfigSpec   ReadConfig and the config file;                          *)
(*   ElementSpec  NewElement and the element settings;                     *)
(*   CommandSpec  the Session commands sent to the remote endpoint.        *)
(***************************************************************************)
EXTENDS Integers, Sequences, FiniteSets, TLC

(***************************************************************************)
(* Bounds of the model.                                                    *)
(***************************************************************************)
\* number of output lines the child process writes
MaxLines == 3
\* number of Stop calls the caller makes
MaxStops == 2
\* number of entries of the Session error log
MaxErrors == 3
\* number of Session method calls of one behaviour
MaxCalls == 5
\* number of ReadConfig calls of one behaviour
MaxReads == 2
\* number of ElementSettings objects on the heap
MaxObjects == 2
\* number of element handles
MaxElements == 1
\* number of Session commands of one behaviour
MaxCmds == 2
\* number of times the page replaces the remote element
MaxGen == 2
\* number of find-element attempts of one resolution
MaxPolls == 2

VARIABLES
    \* ---- Driver (src/unnamed/part_001) ----
    cmd,            \* d.cmd: "nil" or "set"
    process,        \* d.cmd.Process: "nil" or "handle"
    proc,           \* the child process: "none", "running" or "zombie"
    pipe,           \* lines written to the stdout pipe and not yet scanned
    emitted,        \* number of lines the child has written
    startPc,        \* the caller in Start: "idle", "select" or "returned"
    startResult,    \* error returned by Start ("none" until it returns)
    timerArmed,     \* time.After(d.timeout.Duration) was created
    timerFired,     \* the timer channel holds a value
    ready,          \* buffer of the channel make(chan bool, 1)
    scanPc,         \* printLogs: "none", "scan", "inuse", "started", "done"
    line,           \* printLogs' local variable line
    sends,          \* completed sends on ready (history)
    stopResults,    \* results of the caller's Stop calls, in call order
    exited,         \* the Go program has terminated (panic or fatal log)
    markerInTime,   \* the child wrote a started marker before the timer fired
    conflictSeen,   \* printLogs saw a port-conflict line before the timer fired
    endedBy,        \* what ended the child: "none", "exit", "scanStop", "callerStop"
    \* ---- Session (src/session.go) ----
    errors,         \* s.errors
    defaultLocator, \* s.defaultLocator
    lastOp,         \* the last Session method called (history)
    prevOp,         \* the Session method called before lastOp (history)
    lastArg,        \* the argument of the last AddError call (history)
    raised,         \* the string the last RaiseErrors call returned
    ncalls,         \* number of Session method calls made (history)
    \* ---- config (src/unnamed/part_000, second file) ----
    files,          \* the config files on disk: path -> document or "absent"
    Config,         \* the package variable Config: "nil" or a config
    reads,          \* the ReadConfig calls made, with their outcome (history)
    halted,         \* the program has panicked
    \* ---- element (src/client/session/element/element.go) ----
    heap,           \* the ElementSettings objects, by address 1..Len(heap)
    defaultElementSettings, \* address held by the package variable (0: nil)
    elements,       \* the element handles created so far
    pkgUse,         \* the last package-level UseCSS/UseXPath call (history)
    \* ---- Session commands (src/unnamed/part_000, first file) ----
    softAsserts,    \* failures are recorded instead of propagated
    remoteGen,      \* generation of the element the remote end holds
    call,           \* the Session command in progress or last made (history)
    ncmds,          \* number of Session commands made (history)
    shots           \* names of the screenshot files on disk

driverVars == <<cmd, process, proc, pipe, emitted, startPc, startResult,
                timerArmed, timerFired, ready, scanPc, line, sends,
                stopResults, exited, markerInTime, conflictSeen, endedBy>>
sessionVars == <<errors, defaultLocator, lastOp, prevOp, lastArg, raised,
                 ncalls>>
configVars == <<files, Config, reads, halted>>
elemVars == <<heap, defaultElementSettings, elements, pkgUse>>
cmdVars == <<softAsserts, remoteGen, call, ncmds, shots>>
clientVars == <<configVars, elemVars, cmdVars>>
vars == <<driverVars, sessionVars, clientVars>>

(***************************************************************************)
(* Output lines.  A line is modelled by the set of the markers it          *)
(* contains; strings.Contains(line, marker) is membership.                 *)
(***************************************************************************)
AddressInUse == "Address already in use"
StartedOK == "ChromeDriver was started successfully"
Lines == SUBSET {AddressInUse, StartedOK}
Contains(l, marker) == marker \in l

\* capacity of the ready channel
ReadyCap == 1

\* logger.Fatalf is not part of the sources: it either returns to printLogs
\* or terminates the program.
FatalfOutcomes == {"returns", "exits"}

(***************************************************************************)
(* os.Process.Kill as d.Stop uses it.  The program never calls Wait, so a  *)
(* killed or exited child stays an unreaped zombie and signalling it       *)
(* succeeds.                                                               *)
(***************************************************************************)
KillReaped(p) ==
    IF p = "running" THEN [err |-> "nil", proc |-> "zombie"]
    ELSE [err |-> "failed to kill browser driver", proc |-> p]

Kill(p) ==
    IF p \in {"running", "zombie"} THEN [err |-> "nil", proc |-> "zombie"]
    ELSE [err |-> "failed to kill browser driver", proc |-> p]

\* Driver.Stop: the error it returns ("panic" for a nil dereference) and the
\* state of the child process afterwards.
DriverStop(c, ph, p) ==
    IF c = "nil" THEN [err |-> "nil", proc |-> p]
    ELSE IF ph = "nil" THEN [err |-> "panic", proc |-> p]
    ELSE Kill(p)

InitDriver ==
    /\ cmd = "nil"
    /\ process = "nil"
    /\ proc = "none"
    /\ pipe = <<>>
    /\ emitted = 0
    /\ startPc = "idle"
    /\ startResult = "none"
    /\ timerArmed = FALSE
    /\ timerFired = FALSE
    /\ ready = <<>>
    /\ scanPc = "none"
    /\ line = {}
    /\ sends = 0
    /\ stopResults = <<>>
    /\ exited = FALSE
    /\ markerInTime = FALSE
    /\ conflictSeen = FALSE
    /\ endedBy = "none"

(***************************************************************************)
(* Driver.Start up to the select statement: d.cmd is assigned before the   *)
(* pipe is requested and the process is started; either may fail.          *)
(***************************************************************************)
StartLaunchNoReturn ==
    /\ ~exited
    /\ startPc = "idle"
    /\ cmd' = "set"
    /\ \E outcome \in {"pipeErr", "startErr", "launched"} :
          /\ process' = IF outcome = "launched" THEN "handle" ELSE "nil"
          /\ proc' = IF outcome = "launched" THEN "running" ELSE "none"
          /\ startPc' = "select"
          /\ startResult' = "none"
          /\ scanPc' = "scan"
          /\ timerArmed' = TRUE
    /\ UNCHANGED <<pipe, emitted, timerFired, ready, line, sends,
                   stopResults, exited, markerInTime, conflictSeen, endedBy>>
    /\ UNCHANGED sessionVars
    /\ UNCHANGED clientVars

StartLaunch ==
    /\ ~exited
    /\ startPc = "idle"
    /\ cmd' = "set"
    /\ \E outcome \in {"pipeErr", "startErr", "launched"} :
          IF outcome = "launched"
          THEN /\ process' = "handle"
               /\ proc' = "running"
               /\ startPc' = "select"
               /\ startResult' = "none"
               /\ scanPc' = "scan"
               /\ timerArmed' = TRUE
          ELSE /\ process' = "nil"
               /\ proc' = "none"
               /\ startPc' = "returned"
               /\ startResult' = outcome
               /\ scanPc' = "none"
               /\ timerArmed' = FALSE
    /\ UNCHANGED <<pipe, emitted, timerFired, ready, line, sends,
                   stopResults, exited, markerInTime, conflictSeen, endedBy>>
    /\ UNCHANGED sessionVars
    /\ UNCHANGED clientVars

\* the timer of time.After fires
TimerFire ==
    /\ ~exited
    /\ timerArmed
    /\ ~timerFired
    /\ startPc = "select"
    /\ timerFired' = TRUE
    /\ UNCHANGED <<cmd, process, proc, pipe, emitted, startPc, startResult,
                   timerArmed, ready, scanPc, line, sends, stopResults,
                   exited, markerInTime, conflictSeen, endedBy>>
    /\ UNCHANGED sessionVars
    /\ UNCHANGED clientVars

\* select: case <-ready
StartSelectReady ==
    /\ ~exited
    /\ startPc = "select"
    /\ Len(ready) > 0
    /\ ready' = Tail(ready)
    /\ startPc' = "returned"
    /\ startResult' = "nil"
    /\ UNCHANGED <<cmd, process, proc, pipe, emitted, timerArmed, timerFired,
                   scanPc, line, sends, stopResults, exited, markerInTime,
                   conflictSeen, endedBy>>
    /\ UNCHANGED sessionVars
    /\ UNCHANGED clientVars

StartSelectTimeoutEager ==
    /\ ~exited
    /\ startPc = "select"
    /\ startPc' = "returned"
    /\ startResult' = "timeout"
    /\ UNCHANGED <<cmd, process, proc, pipe, emitted, timerArmed, timerFired,
                   ready, scanPc, line, sends, stopResults, exited,
                   markerInTime, conflictSeen, endedBy>>
    /\ UNCHANGED sessionVars
    /\ UNCHANGED clientVars

StartSelectTimeoutKill ==
    /\ ~exited
    /\ startPc = "select"
    /\ timerFired
    /\ startPc' = "returned"
    /\ startResult' = "timeout"
    /\ proc' = "zombie"
    /\ endedBy' = IF proc = "running" THEN "callerStop" ELSE endedBy
    /\ UNCHANGED <<cmd, process, pipe, emitted, timerArmed, timerFired,
                   ready, scanPc, line, sends, stopResults, exited,
                   markerInTime, conflictSeen>>
    /\ UNCHANGED sessionVars
    /\ UNCHANGED clientVars

\* select: case <-time.After(...); when both cases are ready Go picks either
StartSelectTimeout ==
    /\ ~exited
    /\ startPc = "select"
    /\ timerFired
    /\ startPc' = "returned"
    /\ startResult' = "timeout"
    /\ UNCHANGED <<cmd, process, proc, pipe, emitted, timerArmed, timerFired,
                   ready, scanPc, line, sends, stopResults, exited,
                   markerInTime, conflictSeen, endedBy>>
    /\ UNCHANGED sessionVars
    /\ UNCHANGED clientVars

(***************************************************************************)
(* Driver.Stop called by the owner of the Driver, before Start or after    *)
(* Start has returned.  It has no blocking operation.                      *)
(***************************************************************************)
Stop ==
    /\ ~exited
    /\ startPc \in {"idle", "returned"}
    /\ Len(stopResults) < MaxStops
    /\ LET r == DriverStop(cmd, process, proc) IN
          /\ stopResults' = Append(stopResults, r.err)
          /\ proc' = r.proc
          /\ exited' = (r.err = "panic")
          /\ endedBy' = IF r.proc # proc THEN "callerStop" ELSE endedBy
    /\ UNCHANGED <<cmd, process, pipe, emitted, startPc, startResult,
                   timerArmed, timerFired, ready, scanPc, line, sends,
                   markerInTime, conflictSeen>>
    /\ UNCHANGED sessionVars
    /\ UNCHANGED clientVars

(***************************************************************************)
(* The child process: writes lines while it runs, and may exit by itself.  *)
(***************************************************************************)
ChildEmit ==
    /\ ~exited
    /\ proc = "running"
    /\ emitted < MaxLines
    /\ \E l \in Lines :
          /\ pipe' = Append(pipe, l)
          /\ markerInTime' = (markerInTime \/
                                (Contains(l, StartedOK) /\ ~timerFired))
    /\ emitted' = emitted + 1
    /\ UNCHANGED <<cmd, process, proc, startPc, startResult, timerArmed,
                   timerFired, ready, scanPc, line, sends, stopResults,
                   exited, conflictSeen, endedBy>>
    /\ UNCHANGED sessionVars
    /\ UNCHANGED clientVars

ChildExit ==
    /\ ~exited
    /\ proc = "running"
    /\ proc' = "zombie"
    /\ endedBy' = "exit"
    /\ UNCHANGED <<cmd, process, pipe, emitted, startPc, startResult,
                   timerArmed, timerFired, ready, scanPc, line, sends,
                   stopResults, exited, markerInTime, conflictSeen>>
    /\ UNCHANGED sessionVars
    /\ UNCHANGED clientVars

(***************************************************************************)
(* printLogs, the output-scan goroutine.                                   *)
(***************************************************************************)
\* scanner.Scan() returns true; line := scanner.Text(); fmt.Println(line)
ScanLine ==
    /\ ~exited
    /\ scanPc = "scan"
    /\ pipe # <<>>
    /\ line' = Head(pipe)
    /\ pipe' = Tail(pipe)
    /\ scanPc' = "inuse"
    /\ UNCHANGED <<cmd, process, proc, emitted, startPc, startResult,
                   timerArmed, timerFired, ready, sends, stopResults, exited,
                   markerInTime, conflictSeen, endedBy>>
    /\ UNCHANGED sessionVars
    /\ UNCHANGED clientVars

\* scanner.Scan() returns false: the pipe is drained and its writer is gone
ScanEOF ==
    /\ ~exited
    /\ scanPc = "scan"
    /\ pipe = <<>>
    /\ proc = "zombie"
    /\ scanPc' = "done"
    /\ UNCHANGED <<cmd, process, proc, pipe, emitted, startPc, startResult,
                   timerArmed, timerFired, ready, line, sends, stopResults,
                   exited, markerInTime, conflictSeen, endedBy>>
    /\ UNCHANGED sessionVars
    /\ UNCHANGED clientVars

\* if strings.Contains(line, "Address already in use") { Fatalf; d.Stop() }
ScanAddressInUse ==
    /\ ~exited
    /\ scanPc = "inuse"
    /\ IF Contains(line, AddressInUse)
       THEN /\ conflictSeen' = (conflictSeen \/
                                 (startPc = "select" /\ ~timerFired))
            /\ \E f \in FatalfOutcomes :
                  IF f = "exits"
                  THEN /\ exited' = TRUE
                       /\ UNCHANGED <<proc, scanPc, endedBy>>
                  ELSE LET r == DriverStop(cmd, process, proc) IN
                          /\ proc' = r.proc
                          /\ exited' = (r.err = "panic")
                          /\ endedBy' = IF r.proc # proc THEN "scanStop"
                                                         ELSE endedBy
                          /\ scanPc' = "started"
       ELSE /\ scanPc' = "started"
            /\ UNCHANGED <<proc, exited, conflictSeen, endedBy>>
    /\ UNCHANGED <<cmd, process, pipe, emitted, startPc, startResult,
                   timerArmed, timerFired, ready, line, sends, stopResults,
                   markerInTime>>
    /\ UNCHANGED sessionVars
    /\ UNCHANGED clientVars

\* if strings.Contains(line, "ChromeDriver was started successfully")
\*     { ready <- true }        the send blocks while the buffer is full
ScanStarted ==
    /\ ~exited
    /\ scanPc = "started"
    /\ IF Contains(line, StartedOK)
       THEN /\ Len(ready) < ReadyCap
            /\ ready' = Append(ready, TRUE)
            /\ sends' = sends + 1
       ELSE UNCHANGED <<ready, sends>>
    /\ scanPc' = "scan"
    /\ UNCHANGED <<cmd, process, proc, pipe, emitted, startPc, startResult,
                   timerArmed, timerFired, line, stopResults, exited,
                   markerInTime, conflictSeen, endedBy>>
    /\ UNCHANGED sessionVars
    /\ UNCHANGED clientVars

InitSession ==
    /\ errors = <<>>
    /\ defaultLocator = ""
    /\ lastOp = "none"
    /\ prevOp = "none"
    /\ lastArg = <<>>
    /\ raised = <<>>
    /\ ncalls = 0

(***************************************************************************)
(* Session (src/session.go).  A string is a sequence of characters.        *)
(***************************************************************************)
NL == "\n"
\* the messages the callers pass to AddError
Msgs == {<<>>, <<"a">>, <<"a", "b">>, <<"b", NL>>}
\* selector.CSS and selector.XPath
CSS == "css selector"
XPath == "xpath"
SessionID == "session-1"

\* the loop of strings.Join: the separator, then the element, for elems[i..]
RECURSIVE JoinLoop(_, _, _, _)
JoinLoop(elems, i, acc, sep) ==
    IF i > Len(elems) THEN acc
    ELSE JoinLoop(elems, i + 1, acc \o sep \o elems[i], sep)

StringsJoinTrailing(elems, sep) ==
    IF Len(elems) = 0 THEN <<>>
    ELSE JoinLoop(elems, 2, elems[1], sep) \o sep

\* strings.Join(elems, sep)
StringsJoin(elems, sep) ==
    IF Len(elems) = 0 THEN <<>>
    ELSE IF Len(elems) = 1 THEN elems[1]
    ELSE JoinLoop(elems, 2, elems[1], sep)

\* the value Session.RaiseErrors returns for the log errs
RaiseErrorsResult(errs) ==
    IF Len(errs) = 0 THEN <<>>
    ELSE LET copy == <<>> \o errs IN StringsJoin(copy, <<NL>>)

\* one more Session method call: the call history
Called(op) ==
    /\ ncalls < MaxCalls
    /\ ncalls' = ncalls + 1
    /\ prevOp' = lastOp
    /\ lastOp' = op

GetID ==
    /\ Called("GetID")
    /\ UNCHANGED <<errors, defaultLocator, lastArg, raised>>
    /\ UNCHANGED driverVars
    /\ UNCHANGED clientVars

AddError ==
    /\ Len(errors) < MaxErrors
    /\ Called("AddError")
    /\ \E err \in Msgs :
          /\ errors' = Append(errors, err)
          /\ lastArg' = err
    /\ UNCHANGED <<defaultLocator, raised>>
    /\ UNCHANGED driverVars
    /\ UNCHANGED clientVars

UseCSS ==
    /\ Called("UseCSS")
    /\ defaultLocator' = CSS
    /\ UNCHANGED <<errors, lastArg, raised>>
    /\ UNCHANGED driverVars
    /\ UNCHANGED clientVars

UseXPath ==
    /\ Called("UseXPath")
    /\ defaultLocator' = XPath
    /\ UNCHANGED <<errors, lastArg, raised>>
    /\ UNCHANGED driverVars
    /\ UNCHANGED clientVars

RaiseErrorsDrain ==
    /\ Called("RaiseErrors")
    /\ raised' = RaiseErrorsResult(errors)
    /\ errors' = <<>>
    /\ UNCHANGED <<defaultLocator, lastArg>>
    /\ UNCHANGED driverVars
    /\ UNCHANGED clientVars

RaiseErrors ==
    /\ Called("RaiseErrors")
    /\ raised' = RaiseErrorsResult(errors)
    /\ UNCHANGED <<errors, defaultLocator, lastArg>>
    /\ UNCHANGED driverVars
    /\ UNCHANGED clientVars

(***************************************************************************)
(* The remote end.  An element identifier is the generation of the node it *)
(* names; NoID is the empty identifier of a handle that is not resolved    *)
(* and NullID the JSON null of a frame request without element.            *)
(***************************************************************************)
NoID == 0
NullID == 0 - 1
NullValue == [type |-> "null", str |-> ""]
StringValue(v) == [type |-> "string", str |-> v]
NumberValue == [type |-> "number", str |-> ""]
\* a response as executeRequest returns it: the error, whether the response
\* pointer is nil, and the decoded value
NoResponse == [err |-> "nil", resNil |-> FALSE, value |-> NullValue]
TransportFailures ==
    {[err |-> "transport error", resNil |-> b, value |-> NullValue] :
        b \in BOOLEAN}
ProtocolError(kind) ==
    [err |-> kind, resNil |-> FALSE, value |-> [type |-> "object", str |-> kind]]
Success(v) == [err |-> "nil", resNil |-> FALSE, value |-> v]
FindRequest == [kind |-> "find element", id |-> NoID]
FrameRequest(id) == [kind |-> "frame", id |-> id]
PlainRequest(kind) == [kind |-> kind, id |-> NoID]

\* no Session command has been made
NoCall ==
    [op |-> "none", name |-> <<>>, elem |-> 0, hadID |-> FALSE,
     requests |-> <<>>, resp |-> NoResponse, reports |-> <<>>,
     ret |-> "", wrote |-> FALSE]

(***************************************************************************)
(* config: ReadConfig and the config file.  A pointer is the empty         *)
(* sequence (nil) or a one-element sequence holding the struct; an         *)
(* ElementSettings pointer that has been published is a heap address.      *)
(* Durations are in milliseconds.                                          *)
(***************************************************************************)
DefaultConfigPath == "goseleniumrc.json"
CustomConfigPath == "custom.json"
ConfigPaths == {DefaultConfigPath, CustomConfigPath}
\* the configPath arguments the callers pass
ConfigPathArgs == {"", CustomConfigPath}
\* failures of the file system calls of one ReadConfig
IOOutcomes == {"ok", "statErr", "readErr", "writeErr"}

\* types.Time in the config file
FormatTime(ms) == <<ms, "ms">>
ParseTime(j) == j[1]

\* json.MarshalIndent(c): element_settings and webdriver are omitempty, a
\* nil runner is written as null
Marshal(c) ==
    [wellFormed |-> TRUE,
     logging |-> c.LogLevel,
     soft_asserts |-> c.SoftAsserts,
     runner |-> IF c.Runner = <<>> THEN <<>>
                ELSE <<[parallel_runs |-> c.Runner[1].ParallelRuns]>>,
     raise_errors_automatically |-> c.RaiseErrorsAutomatically,
     element_settings |->
        IF c.ElementSettings = <<>> THEN <<>>
        ELSE <<[ignore_not_found |-> c.ElementSettings[1].IgnoreNotFound,
                retry_timeout |->
                    FormatTime(c.ElementSettings[1].RetryTimeout),
                poll_interval |->
                    FormatTime(c.ElementSettings[1].PollInterval),
                selector_type |-> c.ElementSettings[1].SelectorType]>>,
     webdriver |->
        IF c.WebDriver = <<>> THEN <<>>
        ELSE <<[manual_start |-> c.WebDriver[1].ManualStart,
                path |-> c.WebDriver[1].PathToBinary,
                url |-> c.WebDriver[1].URL,
                timeout |-> FormatTime(c.WebDriver[1].Timeout)]>>]

\* json.Unmarshal(data, &c): a missing or null member leaves the nil pointer
Unmarshal(doc) ==
    [LogLevel |-> doc.logging,
     SoftAsserts |-> doc.soft_asserts,
     Runner |-> IF doc.runner = <<>> THEN <<>>
                ELSE <<[ParallelRuns |-> doc.runner[1].parallel_runs]>>,
     RaiseErrorsAutomatically |-> doc.raise_errors_automatically,
     ElementSettings |->
        IF doc.element_settings = <<>> THEN <<>>
        ELSE <<[IgnoreNotFound |-> doc.element_settings[1].ignore_not_found,
                RetryTimeout |->
                    ParseTime(doc.element_settings[1].retry_timeout),
                PollInterval |->
                    ParseTime(doc.element_settings[1].poll_interval),
                SelectorType |-> doc.element_settings[1].selector_type]>>,
     WebDriver |->
        IF doc.webdriver = <<>> THEN <<>>
        ELSE <<[ManualStart |-> doc.webdriver[1].manual_start,
                PathToBinary |-> doc.webdriver[1].path,
                URL |-> doc.webdriver[1].url,
                Timeout |-> ParseTime(doc.webdriver[1].timeout)]>>]

\* the config createDefaultConfig builds
DefaultConfig ==
    [LogLevel |-> "info",
     SoftAsserts |-> FALSE,
     Runner |-> <<[ParallelRuns |-> 1]>>,
     RaiseErrorsAutomatically |-> TRUE,
     ElementSettings |-> <<>>,
     WebDriver |-> <<>>]

validateMain(c) ==
    IF c.LogLevel = "" THEN [c EXCEPT !.LogLevel = "info"] ELSE c

validateRunner(c) ==
    IF c.Runner = <<>> THEN [c EXCEPT !.Runner = <<[ParallelRuns |-> 1]>>]
    ELSE IF c.Runner[1].ParallelRuns < 1
         THEN [c EXCEPT !.Runner = <<[ParallelRuns |-> 1]>>]
         ELSE c

\* validateElement on a config whose ElementSettings is not nil
validateElement(c) ==
    LET e0 == c.ElementSettings[1]
        e1 == IF e0.SelectorType = ""
              THEN [e0 EXCEPT !.SelectorType = "css selector"] ELSE e0
        e2 == IF e1.RetryTimeout = 0
              THEN [e1 EXCEPT !.RetryTimeout = 10 * 1000] ELSE e1
        e3 == IF e2.PollInterval = 0
              THEN [e2 EXCEPT !.PollInterval = 500] ELSE e2
    IN [c EXCEPT !.ElementSettings = <<e3>>]

\* validateWebDriver on a config whose WebDriver is not nil
validateWebDriver(c) ==
    LET w0 == c.WebDriver[1]
        w1 == IF w0.PathToBinary = ""
              THEN [w0 EXCEPT !.PathToBinary = "chromedriver"] ELSE w0
        w2 == IF w1.Timeout <= 0
              THEN [w1 EXCEPT !.Timeout = 10 * 1000] ELSE w1
        w3 == IF w2.URL = ""
              THEN [w2 EXCEPT !.URL = "http://localhost:4444"] ELSE w2
    IN [c EXCEPT !.WebDriver = <<w3>>]

\* validateConfig: validateElement and validateWebDriver dereference their
\* pointer without a nil check
validateConfig(c) ==
    LET c2 == validateRunner(validateMain(c)) IN
    IF c2.ElementSettings = <<>> THEN [panic |-> TRUE, c |-> c2]
    ELSE LET c3 == validateElement(c2) IN
         IF c3.WebDriver = <<>> THEN [panic |-> TRUE, c |-> c3]
         ELSE [panic |-> FALSE, c |-> validateWebDriver(c3)]

\* the config as Config holds it: its ElementSettings, when not nil, is the
\* object at the next free heap address
Published(c, h) ==
    [c EXCEPT !.ElementSettings =
        IF c.ElementSettings = <<>> THEN 0 ELSE Len(h) + 1]
\* the config Config points to, with its ElementSettings by value
ConfigValue(cfg, h) ==
    [cfg EXCEPT !.ElementSettings =
        IF cfg.ElementSettings = 0 THEN <<>> ELSE <<h[cfg.ElementSettings]>>]

\* ReadConfig returns with outcome r for configPath, having written the
\* file wrote ("" for none); Config is left as it was
ReadConfigFails(configPath, r, wrote) ==
    /\ reads' = Append(reads, [path |-> configPath, wrote |-> wrote,
                               result |-> r, value |-> <<>>])
    /\ halted' = (r = "panic")
    /\ UNCHANGED <<files, Config, heap>>

\* ReadConfig stores c in Config after writing it to the file at wrote
ReadConfigSucceeds(configPath, c, wrote) ==
    /\ c.ElementSettings # <<>> => Len(heap) < MaxObjects
    /\ files' = [files EXCEPT ![wrote] = <<Marshal(c)>>]
    /\ Config' = <<Published(c, heap)>>
    /\ heap' = IF c.ElementSettings = <<>> THEN heap
               ELSE Append(heap, c.ElementSettings[1])
    /\ reads' = Append(reads, [path |-> configPath, wrote |-> wrote,
                               result |-> "nil", value |-> <<c>>])
    /\ UNCHANGED halted

ReadConfig ==
    /\ ~halted
    /\ Len(reads) < MaxReads
    /\ \E arg \in ConfigPathArgs, io \in IOOutcomes :
          LET configPath == IF arg = "" THEN DefaultConfigPath ELSE arg IN
          IF io = "statErr"
          THEN ReadConfigFails(configPath, "failed to stat config file", "")
          ELSE IF files[configPath] = <<>>
          THEN \* createDefaultConfig writes to defaultConfigPath
               IF io = "writeErr"
               THEN ReadConfigFails(configPath,
                                    "failed to create default config", "")
               ELSE /\ io = "ok"
                    /\ ReadConfigSucceeds(configPath, DefaultConfig,
                                          DefaultConfigPath)
          ELSE IF io = "readErr" \/ ~files[configPath][1].wellFormed
          THEN ReadConfigFails(configPath, "failed to read config file", "")
          ELSE LET v == validateConfig(Unmarshal(files[configPath][1])) IN
               IF v.panic
               THEN /\ io = "ok"
                    /\ ReadConfigFails(configPath, "panic", "")
               ELSE IF io = "writeErr"
               THEN ReadConfigFails(configPath, "failed to write config", "")
               ELSE ReadConfigSucceeds(configPath, v.c, configPath)
    /\ UNCHANGED <<defaultElementSettings, elements, pkgUse>>
    /\ UNCHANGED cmdVars
    /\ UNCHANGED <<driverVars, sessionVars>>

(***************************************************************************)
(* element: NewElement and the package-level settings (element.go).        *)
(* An element handle is a record; Settings is the address of the shared    *)
(* ElementSettings object.  The fields created and stale are history.      *)
(***************************************************************************)
\* the object defaultElementSettings points to when the package is loaded
DefaultElementSettingsObject ==
    [IgnoreNotFound |-> FALSE, RetryTimeout |-> 5 * 1000,
     PollInterval |-> 500, SelectorType |-> "css selector"]

\* the selectors the callers pass
Selectors == {"#frame"}
\* the settings objects the callers pass to SetSettings
CallerSettings ==
    {[IgnoreNotFound |-> TRUE, RetryTimeout |-> 1000, PollInterval |-> 100,
      SelectorType |-> "xpath"]}

\* the handle NewElement returns for the settings object at address a
NewHandle(sel, a) ==
    [SelectorType |-> heap[a].SelectorType,
     Selector |-> sel,
     Settings |-> a,
     Session |-> SessionID,
     webID |-> NoID,
     stale |-> FALSE,
     created |-> [locator |-> defaultLocator, settings |-> heap[a]]]

NewElementEager ==
    /\ ~halted
    /\ Len(elements) < MaxElements
    /\ \E sel \in Selectors :
          IF Config = <<>>
          THEN /\ halted' = TRUE
               /\ UNCHANGED <<elements, call>>
          ELSE LET settings == IF Config[1].ElementSettings = 0
                               THEN defaultElementSettings
                               ELSE Config[1].ElementSettings
               IN IF settings = 0
                  THEN /\ halted' = TRUE
                       /\ UNCHANGED <<elements, call>>
                  ELSE /\ elements' = Append(elements,
                              [NewHandle(sel, settings)
                                  EXCEPT !.webID = remoteGen])
                       /\ call' = [call EXCEPT !.requests =
                              Append(@, FindRequest)]
                       /\ UNCHANGED halted
    /\ UNCHANGED <<files, Config, reads, heap, defaultElementSettings,
                   pkgUse, softAsserts, remoteGen, ncmds, shots>>
    /\ UNCHANGED <<driverVars, sessionVars>>

\* NewElement(s, selector): config.Config and the settings pointer are
\* dereferenced without a nil check
NewElement ==
    /\ ~halted
    /\ Len(elements) < MaxElements
    /\ \E sel \in Selectors :
          IF Config = <<>>
          THEN /\ halted' = TRUE
               /\ UNCHANGED elements
          ELSE LET settings == IF Config[1].ElementSettings = 0
                               THEN defaultElementSettings
                               ELSE Config[1].ElementSettings
               IN IF settings = 0
                  THEN /\ halted' = TRUE
                       /\ UNCHANGED elements
                  ELSE /\ elements' = Append(elements,
                                             NewHandle(sel, settings))
                       /\ UNCHANGED halted
    /\ UNCHANGED <<files, Config, reads, heap, defaultElementSettings,
                   pkgUse>>
    /\ UNCHANGED cmdVars
    /\ UNCHANGED <<driverVars, sessionVars>>

\* SetSettings(settings): nil, an object that is already shared, or a new one
SetSettings ==
    /\ ~halted
    /\ \/ \E a \in 0..Len(heap) :
             /\ a # defaultElementSettings
             /\ defaultElementSettings' = a
             /\ UNCHANGED heap
       \/ \E o \in CallerSettings :
             /\ Len(heap) < MaxObjects
             /\ heap' = Append(heap, o)
             /\ defaultElementSettings' = Len(heap) + 1
    /\ UNCHANGED <<files, Config, reads, halted, elements, pkgUse>>
    /\ UNCHANGED cmdVars
    /\ UNCHANGED <<driverVars, sessionVars>>

\* the package-level UseCSS / UseXPath: an assignment through the shared
\* pointer defaultElementSettings
SetDefaultSelectorType(st) ==
    /\ ~halted
    /\ IF defaultElementSettings = 0
       THEN /\ halted' = TRUE
            /\ UNCHANGED <<heap, pkgUse>>
       ELSE /\ heap' = [heap EXCEPT
                           ![defaultElementSettings].SelectorType = st]
            /\ pkgUse' = st
            /\ UNCHANGED halted
    /\ UNCHANGED <<files, Config, reads, defaultElementSettings>>
    /\ UNCHANGED cmdVars
    /\ UNCHANGED <<driverVars, sessionVars>>

ElementUseCSS ==
    /\ pkgUse # "css selector"
    /\ SetDefaultSelectorType("css selector")
    /\ UNCHANGED elements

ElementUseXPathRetroactive ==
    /\ pkgUse # "xpath"
    /\ SetDefaultSelectorType("xpath")
    /\ elements' = [i \in DOMAIN elements |->
                       IF elements[i].Settings = defaultElementSettings
                       THEN [elements[i] EXCEPT !.SelectorType = "xpath"]
                       ELSE elements[i]]

ElementUseXPath ==
    /\ pkgUse # "xpath"
    /\ SetDefaultSelectorType("xpath")
    /\ UNCHANGED elements

(***************************************************************************)
(* Session commands (part_000).  A command is one step; call records what  *)
(* it sent, what it got and what it reported.                              *)
(***************************************************************************)
\* handleError(res, err) with the reports made so far: the failure is
\* recorded, and propagated at once unless soft asserts are on
handleError(reports, err) ==
    [reports |-> Append(reports, err), halt |-> ~softAsserts]

\* the outcome of a command that reported nothing
Returns(reports, ret) ==
    [reports |-> reports, ret |-> ret, panic |-> FALSE, halt |-> FALSE]
\* the outcome of a command after its last handleError
Reported(h, ret) ==
    [reports |-> h.reports, ret |-> ret, panic |-> FALSE, halt |-> h.halt]
Panics(reports) ==
    [reports |-> reports, ret |-> "", panic |-> TRUE, halt |-> FALSE]

\* the tail shared by the string commands: res.Value == nil, then the type
\* assertion res.Value.(string)
ValueOrNoValue(reports, resp, noValue) ==
    IF resp.resNil THEN Panics(reports)
    ELSE IF resp.value.type = "null"
    THEN Reported(handleError(reports, noValue), "")
    ELSE IF resp.value.type = "string" THEN Returns(reports, resp.value.str)
    ELSE Returns(reports, "")

\* GetCurrentURL: returns after reporting the request error
GetCurrentURLOutcome(resp) ==
    IF resp.err # "nil" THEN Reported(handleError(<<>>, resp.err), "")
    ELSE ValueOrNoValue(<<>>, resp, "failed to get current URL")

\* GetTitle and GetWindowHandle: no return after reporting the request error
GetTitleOutcome(resp) ==
    IF resp.err # "nil"
    THEN LET h == handleError(<<>>, resp.err) IN
         IF h.halt THEN Reported(h, "")
         ELSE ValueOrNoValue(h.reports, resp, "failed to get page title")
    ELSE ValueOrNoValue(<<>>, resp, "failed to get page title")

GetWindowHandleOutcome(resp) ==
    IF resp.err # "nil"
    THEN LET h == handleError(<<>>, resp.err) IN
         IF h.halt THEN Reported(h, "")
         ELSE ValueOrNoValue(h.reports, resp, "failed to get window handle")
    ELSE ValueOrNoValue(<<>>, resp, "failed to get window handle")

\* the responses to a request for a string
StringResponses ==
    TransportFailures
        \cup {ProtocolError("no such window")}
        \cup {Success(v) : v \in {NullValue, StringValue("about:blank"),
                                   NumberValue}}

\* a command that touches neither the elements nor the disk
Command(op, request, resp, out) ==
    /\ ~halted
    /\ ncmds' = ncmds + 1
    /\ call' = [op |-> op, name |-> <<>>, elem |-> 0, hadID |-> FALSE,
                requests |-> <<request>>, resp |-> resp,
                reports |-> out.reports, ret |-> out.ret, wrote |-> FALSE]
    /\ halted' = (out.panic \/ out.halt)
    /\ UNCHANGED <<files, Config, reads>>
    /\ UNCHANGED elemVars
    /\ UNCHANGED <<softAsserts, remoteGen, shots>>
    /\ UNCHANGED <<driverVars, sessionVars>>

GetCurrentURL ==
    /\ ncmds < MaxCmds
    /\ \E resp \in StringResponses :
          Command("GetCurrentURL", PlainRequest("url"), resp,
                  GetCurrentURLOutcome(resp))

GetTitle ==
    /\ ncmds < MaxCmds
    /\ \E resp \in StringResponses :
          Command("GetTitle", PlainRequest("title"), resp,
                  GetTitleOutcome(resp))

GetWindowHandle ==
    /\ ncmds < MaxCmds
    /\ \E resp \in StringResponses :
          Command("GetWindowHandle", PlainRequest("window"), resp,
                  GetWindowHandleOutcome(resp))

\* the page replaces the node: identifiers handed out before are stale
PageChange ==
    /\ ~halted
    /\ remoteGen <= MaxGen
    /\ remoteGen' = remoteGen + 1
    /\ UNCHANGED <<softAsserts, call, ncmds, shots>>
    /\ UNCHANGED configVars
    /\ UNCHANGED elemVars
    /\ UNCHANGED <<driverVars, sessionVars>>

\* Element.setElementID: with no identifier cached, polls find-element
\* requests until a match or the retry timeout; a timeout is only recorded
\* when the settings ignore it, and handled as an error otherwise
setElementID(e, polls, found) ==
    IF e.webID # NoID
    THEN [id |-> e.webID, requests |-> <<>>, reports |-> <<>>,
          halt |-> FALSE]
    ELSE LET finds == [i \in 1..polls |-> FindRequest] IN
         IF found
         THEN [id |-> remoteGen, requests |-> finds, reports |-> <<>>,
               halt |-> FALSE]
         ELSE IF heap[e.Settings].IgnoreNotFound
         THEN [id |-> NoID, requests |-> finds,
               reports |-> <<"no such element">>, halt |-> FALSE]
         ELSE [id |-> NoID, requests |-> finds,
               reports |-> handleError(<<>>, "no such element").reports,
               halt |-> handleError(<<>>, "no such element").halt]

\* what the remote end answers to a frame request
FrameResponses(id) ==
    TransportFailures \cup
    {IF id = NullID \/ id = remoteGen THEN Success(NullValue)
     ELSE IF id = NoID THEN ProtocolError("no such element")
     ELSE ProtocolError("stale element reference")}

\* the requests of SwitchToFrame with an element: the resolution, then the
\* frame request carrying the identifier the resolution left in e.id
FrameRequestsEarly(e, r) == <<FrameRequest(e.webID)>> \o r.requests

FrameRequests(e, r) == r.requests \o <<FrameRequest(r.id)>>

SwitchToFrame ==
    /\ ~halted
    /\ ncmds < MaxCmds
    /\ ncmds' = ncmds + 1
    /\ \E target \in 0..Len(elements), polls \in 1..MaxPolls,
          found \in BOOLEAN :
          IF target = 0
          THEN \E resp \in FrameResponses(NullID) :
                  LET h == handleError(<<>>, resp.err) IN
                  /\ call' = [op |-> "SwitchToFrame", name |-> <<>>,
                              elem |-> 0, hadID |-> FALSE,
                              requests |-> <<FrameRequest(NullID)>>,
                              resp |-> resp,
                              reports |-> IF resp.err = "nil" THEN <<>>
                                          ELSE h.reports,
                              ret |-> "", wrote |-> FALSE]
                  /\ halted' = (resp.err # "nil" /\ h.halt)
                  /\ UNCHANGED elements
          ELSE LET e == elements[target]
                   r == setElementID(e, polls, found)
               IN IF r.halt
                  THEN /\ call' = [op |-> "SwitchToFrame", name |-> <<>>,
                                   elem |-> target,
                                   hadID |-> (e.webID # NoID),
                                   requests |-> r.requests,
                                   resp |-> NoResponse,
                                   reports |-> r.reports,
                                   ret |-> "", wrote |-> FALSE]
                       /\ halted' = TRUE
                       /\ UNCHANGED elements
                  ELSE \E resp \in FrameResponses(r.id) :
                          LET h == handleError(r.reports, resp.err) IN
                          /\ call' = [op |-> "SwitchToFrame",
                                      name |-> <<>>, elem |-> target,
                                      hadID |-> (e.webID # NoID),
                                      requests |-> FrameRequests(e, r),
                                      resp |-> resp,
                                      reports |-> IF resp.err = "nil"
                                                  THEN r.reports
                                                  ELSE h.reports,
                                      ret |-> "", wrote |-> FALSE]
                          /\ halted' = (resp.err # "nil" /\ h.halt)
                          /\ elements' = [elements EXCEPT ![target] =
                                [e EXCEPT
                                   !.webID = r.id,
                                   !.stale =
                                      (resp.err = "stale element reference"
                                       \/ (e.stale /\ r.requests = <<>>))]]
    /\ UNCHANGED <<files, Config, reads>>
    /\ UNCHANGED <<heap, defaultElementSettings, pkgUse>>
    /\ UNCHANGED <<softAsserts, remoteGen, shots>>
    /\ UNCHANGED <<driverVars, sessionVars>>

\* screenshot names, as sequences of characters
Name(base, ext) == base \o ext
ScreenshotNames ==
    {Name(<<"a">>, ext) :
        ext \in {<<".", "p", "n", "g">>, <<".", "j", "p", "g">>,
                 <<".", "j", "p", "e", "g">>, <<".", "g", "i", "f">>,
                 <<"p", "n", "g">>, <<".", "p", "n", "g", ".">>, <<>>}}
    \cup {<<>>}

\* strings.HasSuffix(str, suffix)
HasSuffix(str, suffix) ==
    /\ Len(str) >= Len(suffix)
    /\ SubSeq(str, Len(str) - Len(suffix) + 1, Len(str)) = suffix

\* the screenshot payloads the remote end may send
ScreenshotResponses ==
    TransportFailures
        \cup {ProtocolError("unable to capture screen")}
        \cup {Success(v) :
                 v \in {NullValue, NumberValue, StringValue("png as base64"),
                        StringValue("not base64"),
                        StringValue("base64 of no png")}}
\* what the disk does to createScreenshotFile
DiskOutcomes == {"ok", "openErr", "encodeErr"}

\* createScreenshotFile(name, rawData): the error it returns and whether it
\* has created the file
createScreenshotFile(name, rawData, disk) ==
    IF rawData = "not base64"
    THEN [err |-> "failed to decode base64", created |-> FALSE]
    ELSE IF rawData # "png as base64"
    THEN [err |-> "failed to decode png", created |-> FALSE]
    ELSE IF disk = "openErr"
    THEN [err |-> "failed to create screenshot file", created |-> FALSE]
    ELSE IF HasSuffix(name, <<".", "p", "n", "g">>)
    THEN [err |-> IF disk = "encodeErr" THEN "failed to encode png"
                  ELSE "nil",
          created |-> TRUE]
    ELSE IF HasSuffix(name, <<".", "j", "p", "e", "g">>)
            \/ HasSuffix(name, <<".", "j", "p", "g">>)
    THEN [err |-> IF disk = "encodeErr" THEN "failed to encode jpeg"
                  ELSE "nil",
          created |-> TRUE]
    ELSE [err |-> "screenshot cannot be created", created |-> TRUE]

\* TakeScreenshot after the name check: the request, then the file
RequestScreenshot(name, resp, disk) ==
    IF resp.err # "nil"
    THEN [out |-> Reported(handleError(<<>>, resp.err), ""),
          requests |-> <<PlainRequest("screenshot")>>, created |-> FALSE]
    ELSE IF resp.value.type = "null"
    THEN [out |-> Reported(handleError(<<>>, "failed to take screenshot"),
                           ""),
          requests |-> <<PlainRequest("screenshot")>>, created |-> FALSE]
    ELSE IF resp.value.type = "string"
    THEN LET f == createScreenshotFile(name, resp.value.str, disk) IN
         [out |-> IF f.err = "nil" THEN Returns(<<>>, "")
                  ELSE Reported(handleError(<<>>, f.err), ""),
          requests |-> <<PlainRequest("screenshot")>>,
          created |-> f.created]
    ELSE [out |-> Returns(<<>>, ""),
          requests |-> <<PlainRequest("screenshot")>>, created |-> FALSE]

TakeScreenshotUnchecked(name, resp, disk) ==
    RequestScreenshot(name, resp, disk)

\* TakeScreenshot(name): what it reports, sends and creates
TakeScreenshotOutcome(name, resp, disk) ==
    IF /\ ~HasSuffix(name, <<".", "p", "n", "g">>)
       /\ ~HasSuffix(name, <<".", "j", "p", "g">>)
       /\ ~HasSuffix(name, <<".", "j", "p", "e", "g">>)
    THEN [out |-> Reported(handleError(<<>>,
                     "screenshot name must end with .png, .jpg or .jpeg"),
                     ""),
          requests |-> <<>>, created |-> FALSE]
    ELSE RequestScreenshot(name, resp, disk)

TakeScreenshot ==
    /\ ~halted
    /\ ncmds < MaxCmds
    /\ ncmds' = ncmds + 1
    /\ \E name \in ScreenshotNames, resp \in ScreenshotResponses,
          disk \in DiskOutcomes :
          LET t == TakeScreenshotOutcome(name, resp, disk) IN
          /\ call' = [op |-> "TakeScreenshot", name |-> name, elem |-> 0,
                      hadID |-> FALSE, requests |-> t.requests,
                      resp |-> IF t.requests = <<>> THEN NoResponse
                               ELSE resp,
                      reports |-> t.out.reports, ret |-> "",
                      wrote |-> t.created]
          /\ shots' = IF t.created THEN shots \cup {name} ELSE shots
          /\ halted' = (t.out.panic \/ t.out.halt)
    /\ UNCHANGED <<files, Config, reads>>
    /\ UNCHANGED elemVars
    /\ UNCHANGED <<softAsserts, remoteGen>>
    /\ UNCHANGED <<driverVars, sessionVars>>

\* the documents a config file written by hand may hold
MalformedDoc == [Marshal(DefaultConfig) EXCEPT !.wellFormed = FALSE]
ElementSettingsDocs ==
    {<<>>} \cup
    {<<[ignore_not_found |-> FALSE, retry_timeout |-> FormatTime(r),
        poll_interval |-> FormatTime(pi), selector_type |-> st]>> :
        r \in {0, 3000}, pi \in {0, 100}, st \in {"", "xpath"}}
WebDriverDocs ==
    {<<>>} \cup
    {<<[manual_start |-> FALSE, path |-> pa, url |-> u,
        timeout |-> FormatTime(t)]>> :
        pa \in {"", "geckodriver"}, u \in {"", "http://localhost:9515"},
        t \in {0 - 1, 5000}}
HandWrittenDocs ==
    {MalformedDoc} \cup
    [wellFormed : {TRUE},
     logging : {"", "debug"},
     soft_asserts : {TRUE},
     runner : {<<>>, <<[parallel_runs |-> 0]>>, <<[parallel_runs |-> 2]>>},
     raise_errors_automatically : {FALSE},
     element_settings : ElementSettingsDocs,
     webdriver : WebDriverDocs]

NoFiles == [p \in ConfigPaths |-> <<>>]

\* the state before ReadConfig, NewElement and the Session commands ran
InitClientOn(fs) ==
    /\ files = fs
    /\ Config = <<>>
    /\ reads = <<>>
    /\ halted = FALSE
    /\ heap = <<DefaultElementSettingsObject>>
    /\ defaultElementSettings = 1
    /\ elements = <<>>
    /\ pkgUse = "none"
    /\ remoteGen = 1
    /\ call = NoCall
    /\ ncmds = 0
    /\ shots = {}

Init ==
    /\ InitDriver
    /\ InitSession
    /\ InitClientOn(NoFiles)
    /\ softAsserts = FALSE

Next ==
    \/ StartLaunch
    \/ TimerFire
    \/ StartSelectReady
    \/ StartSelectTimeout
    \/ Stop
    \/ ChildEmit
    \/ ChildExit
    \/ ScanLine
    \/ ScanEOF
    \/ ScanAddressInUse
    \/ ScanStarted

Spec == Init /\ [][Next]_vars

SessionNext ==
    \/ GetID
    \/ AddError
    \/ UseCSS
    \/ UseXPath
    \/ RaiseErrors

SessionSpec == Init /\ [][SessionNext]_vars

\* ReadConfig on a disk that holds no config file or one written by hand
ConfigInit ==
    /\ InitDriver
    /\ InitSession
    /\ \E p \in ConfigPaths, d \in HandWrittenDocs, present \in BOOLEAN :
          InitClientOn(IF present THEN [NoFiles EXCEPT ![p] = <<d>>]
                                  ELSE NoFiles)
    /\ softAsserts = FALSE

ConfigNext ==
    \/ ReadConfig

ConfigSpec == ConfigInit /\ [][ConfigNext]_vars

\* a config file with every setting present
CompleteDoc ==
    [wellFormed |-> TRUE, logging |-> "debug", soft_asserts |-> TRUE,
     runner |-> <<[parallel_runs |-> 2]>>,
     raise_errors_automatically |-> FALSE,
     element_settings |->
        <<[ignore_not_found |-> FALSE, retry_timeout |-> FormatTime(3000),
           poll_interval |-> FormatTime(100), selector_type |-> "xpath"]>>,
     webdriver |->
        <<[manual_start |-> FALSE, path |-> "geckodriver",
           url |-> "http://localhost:9515", timeout |-> FormatTime(5000)]>>]

\* the client state after a ReadConfig that returned nil for the config c,
\* written to the default path
LoadedClient(c) ==
    /\ files = [NoFiles EXCEPT ![DefaultConfigPath] = <<Marshal(c)>>]
    /\ Config = <<Published(c, <<DefaultElementSettingsObject>>)>>
    /\ reads = <<[path |-> DefaultConfigPath, wrote |-> DefaultConfigPath,
                  result |-> "nil", value |-> <<c>>]>>
    /\ halted = FALSE
    /\ heap = IF c.ElementSettings = <<>>
              THEN <<DefaultElementSettingsObject>>
              ELSE <<DefaultElementSettingsObject, c.ElementSettings[1]>>
    /\ defaultElementSettings = 1
    /\ elements = <<>>
    /\ pkgUse = "none"
    /\ remoteGen = 1
    /\ call = NoCall
    /\ ncmds = 0
    /\ shots = {}

\* the elements are created before any ReadConfig, after the ReadConfig that
\* created the default config, or after the ReadConfig of a complete file
ElementInit ==
    /\ InitDriver
    /\ InitSession
    /\ \/ InitClientOn(NoFiles)
       \/ LoadedClient(DefaultConfig)
       \/ LoadedClient(validateConfig(Unmarshal(CompleteDoc)).c)
    /\ softAsserts = FALSE

ElementNext ==
    \/ NewElement
    \/ SetSettings
    \/ ElementUseCSS
    \/ ElementUseXPath
    \/ UseCSS
    \/ UseXPath

ElementSpec == ElementInit /\ [][ElementNext]_vars

\* the commands run with or without a config loaded, in either assert mode
CommandInit ==
    /\ InitDriver
    /\ InitSession
    /\ \/ InitClientOn(NoFiles)
       \/ LoadedClient(DefaultConfig)
       \/ LoadedClient(validateConfig(Unmarshal(CompleteDoc)).c)
    /\ softAsserts \in BOOLEAN

CommandNext ==
    \/ NewElement
    \/ PageChange
    \/ GetCurrentURL
    \/ GetTitle
    \/ GetWindowHandle
    \/ SwitchToFrame
    \/ TakeScreenshot

CommandSpec == CommandInit /\ [][CommandNext]_vars

(***************************************************************************)
(* Properties of the Driver (checked under Spec).                          *)
(***************************************************************************)
LaunchErrors == {"pipeErr", "startErr"}
\* a step in which Start leaves its select statement
StartReturnsFromSelect == startPc = "select" /\ startPc' = "returned"
\* printLogs is blocked in `ready <- true` and no receiver is left
ScanBlockedForever ==
    /\ scanPc = "started"
    /\ Contains(line, StartedOK)
    /\ Len(ready) = ReadyCap
    /\ startPc = "returned"

\* C1 (as stated): whenever the launched child writes a started marker line
\* before the startup timeout elapses, Start returns nil.
C1_MarkerInTimeGivesSuccess ==
    (startPc = "returned" /\ markerInTime) => startResult = "nil"

\* C1 (amended): Start returns nil exactly when it receives the readiness
\* signal: if printLogs has sent on ready and the timer has not fired when
\* the select completes, Start returns nil; and Start returns nil only after
\* a send on ready.
C1_ReadyBeforeTimerGivesSuccess ==
    [][StartReturnsFromSelect =>
          /\ ((Len(ready) > 0 /\ ~timerFired) => startResult' = "nil")
          /\ (startResult' = "nil" => (Len(ready) > 0 /\ sends >= 1))]_vars

C1_Witness ==
    /\ startPc = "returned"
    /\ startResult = "nil"
    /\ markerInTime
    /\ ~timerFired
    /\ sends = 1

\* C2 (as stated): when Start returns the timeout error the child process is
\* still alive.
C2_TimeoutLeavesChildAlive ==
    [][(StartReturnsFromSelect /\ startResult' = "timeout")
          => proc' = "running"]_vars

\* C2 (amended): returning the timeout error, Start does not touch the child
\* process: the child is alive unless it exited by itself or printLogs
\* stopped it on a port-conflict line, and a later Stop returns no error.
C2_TimeoutDoesNotKill ==
    [][(StartReturnsFromSelect /\ startResult' = "timeout") =>
          /\ proc' = proc
          /\ endedBy' = endedBy
          /\ endedBy \in {"none", "exit", "scanStop"}
          /\ (proc' = "running" <=> endedBy = "none")
          /\ DriverStop(cmd', process', proc').err = "nil"
          /\ DriverStop(cmd', process', proc').proc = "zombie"]_vars

C2_Witness ==
    /\ startPc = "returned"
    /\ startResult = "timeout"
    /\ sends = 0
    /\ proc = "running"
    /\ stopResults = <<>>

\* C3: when printLogs sees a port-conflict line while Start waits and the
\* timer has not fired, Start returns a port-conflict error (not the timeout
\* error, not nil) and the child process has been terminated.
C3_PortConflictError ==
    (startPc = "returned" /\ conflictSeen)
        => (startResult = "port conflict" /\ proc = "zombie")

\* C4: Stop on a Driver that was never started, and every Stop (the first
\* and the second) on a Driver whose process was launched, returns no error;
\* Stop is never blocked: whenever the caller is not inside Start it can run
\* to completion, whatever the child and printLogs are doing.
C4_StopIdempotent ==
    /\ (startPc = "idle" \/ process = "handle")
          => \A i \in 1..Len(stopResults) : stopResults[i] = "nil"
    /\ (~exited /\ startPc \in {"idle", "returned"}
          /\ Len(stopResults) < MaxStops) => ENABLED Stop

C4_Witness ==
    /\ process = "handle"
    /\ Len(stopResults) = 2
    /\ stopResults[2] = "nil"
    /\ proc = "zombie"
    /\ scanPc # "done"

\* C5: no Stop call panics, in particular not after a Start that failed to
\* launch the process.
C5_StopNeverPanics ==
    \A i \in 1..Len(stopResults) : stopResults[i] # "panic"

\* C6: printLogs sends on the readiness channel at most once.
C6_ReadySentAtMostOnce == sends <= 1

\* C7: printLogs is never blocked forever on the readiness channel.
C7_ScanNeverBlockedForever == ~ScanBlockedForever

\* C8: when the pipe or the process start fails, Start has returned the
\* launch error without starting printLogs and without arming the timer; the
\* timeout error is returned only for a launched process.
C8_LaunchErrorsDistinct ==
    /\ (cmd = "set" /\ process = "nil") =>
          /\ startPc = "returned"
          /\ startResult \in LaunchErrors
          /\ scanPc = "none"
          /\ ~timerArmed
          /\ proc = "none"
    /\ startResult \in LaunchErrors => process = "nil"
    /\ startResult = "timeout" => (process = "handle" /\ timerFired)

C8_Witness ==
    /\ startPc = "returned"
    /\ startResult = "startErr"
    /\ scanPc = "none"

(***************************************************************************)
(* Properties of the Session (checked under SessionSpec).                  *)
(***************************************************************************)
\* position before which the i-th message starts in the joined string
RECURSIVE Offset(_, _)
Offset(errs, i) ==
    IF i <= 1 THEN 0 ELSE Offset(errs, i - 1) + Len(errs[i - 1]) + 1

\* r is the messages of errs in order, one newline between neighbours,
\* nothing before the first and nothing after the last
JoinedInOrder(r, errs) ==
    IF Len(errs) = 0 THEN r = <<>>
    ELSE /\ Len(r) = Offset(errs, Len(errs) + 1) - 1
         /\ \A i \in 1..Len(errs) :
               /\ SubSeq(r, Offset(errs, i) + 1,
                            Offset(errs, i) + Len(errs[i])) = errs[i]
               /\ i < Len(errs) => r[Offset(errs, i + 1)] = NL

\* C9: RaiseErrors returns the empty string for an empty log, and otherwise
\* the recorded messages in AddError order joined by single newlines, with
\* no newline added before the first or after the last message.
C9_RaiseErrorsJoins ==
    lastOp = "RaiseErrors" => JoinedInOrder(raised, errors)

C9_Witness ==
    /\ lastOp = "RaiseErrors"
    /\ errors = << <<"a">>, <<"a", "b">> >>
    /\ raised = <<"a", NL, "a", "b">>

\* C10: the error log is append-only: no call removes, reorders or alters an
\* entry; AddError appends exactly its argument; every other call leaves the
\* log unchanged; a RaiseErrors directly after a RaiseErrors returns the same
\* string.
C10_LogAppendOnly ==
    [][/\ Len(errors') >= Len(errors)
       /\ SubSeq(errors', 1, Len(errors)) = errors
       /\ (ncalls' # ncalls /\ lastOp' = "AddError")
             => errors' = Append(errors, lastArg')
       /\ (ncalls' # ncalls /\ lastOp' # "AddError") => errors' = errors
       /\ (ncalls' # ncalls /\ lastOp = "RaiseErrors"
             /\ lastOp' = "RaiseErrors") => raised' = raised]_vars

C10_Witness ==
    /\ prevOp = "RaiseErrors"
    /\ lastOp = "RaiseErrors"
    /\ Len(errors) = 2
    /\ raised # <<>>

(***************************************************************************)
(* Properties of ReadConfig (checked under ConfigSpec).                    *)
(***************************************************************************)
\* every setting the Driver and the element constructors read is set
FullyDefaulted(c) ==
    /\ c.Runner # <<>>
    /\ c.Runner[1].ParallelRuns >= 1
    /\ c.ElementSettings # <<>>
    /\ c.ElementSettings[1].SelectorType # ""
    /\ c.ElementSettings[1].RetryTimeout # 0
    /\ c.ElementSettings[1].PollInterval # 0
    /\ c.WebDriver # <<>>
    /\ c.WebDriver[1].PathToBinary # ""
    /\ c.WebDriver[1].URL # ""
    /\ c.WebDriver[1].Timeout > 0

\* C18: after every successful ReadConfig the global Config is fully
\* defaulted: parallel_runs is at least 1 and the element and webdriver
\* settings are present with every field set.
C18_ConfigFullyDefaulted ==
    (reads # <<>> /\ reads[Len(reads)].result = "nil")
        => (Config # <<>> /\ FullyDefaulted(ConfigValue(Config[1], heap)))

\* C19: a ReadConfig of the file the previous successful ReadConfig wrote
\* returns (unless the file system fails) without error or panic and yields
\* a Config equal to the one that was written.
C19_ReadConfigRepeatable ==
    \A i \in 1..(Len(reads) - 1) :
        (/\ reads[i].result = "nil"
         /\ reads[i + 1].path = reads[i].wrote
         /\ reads[i + 1].result \in {"nil", "panic"})
            => (/\ reads[i + 1].result = "nil"
                /\ reads[i + 1].value = reads[i].value)

(***************************************************************************)
(* Properties of the element handles (checked under ElementSpec).          *)
(***************************************************************************)
\* C11: a handle created while the Session's default locator strategy is
\* XPath (after UseXPath, before a later UseCSS) has the strategy XPath, and
\* one created while it is CSS has the strategy CSS, whatever the
\* configuration supplies.
C11_NewElementFollowsSessionDefault ==
    \A i \in DOMAIN elements :
        elements[i].created.locator # ""
            => elements[i].SelectorType = elements[i].created.locator

\* C12: no step, in particular no UseCSS or UseXPath call of the Session or
\* of the element package, changes the locator strategy of a handle that
\* exists.
C12_UseNotRetroactive ==
    [][\A i \in DOMAIN elements :
          /\ i \in DOMAIN elements'
          /\ elements'[i].SelectorType = elements[i].SelectorType]_vars

C12_Witness ==
    /\ Len(elements) = 1
    /\ elements[1].SelectorType = "css selector"
    /\ elements[1].created.locator = ""
    /\ defaultLocator = "xpath"
    /\ pkgUse = "xpath"
    /\ heap[elements[1].Settings].SelectorType = "xpath"

\* C13: the settings seen through a handle's Settings are those of the
\* moment the handle was created.
C13_SettingsSnapshot ==
    \A i \in DOMAIN elements :
        heap[elements[i].Settings] = elements[i].created.settings

(***************************************************************************)
(* Properties of the Session commands (checked under CommandSpec).         *)
(***************************************************************************)
StringCommands == {"GetCurrentURL", "GetTitle", "GetWindowHandle"}
NoValueMessages ==
    {"failed to get current URL", "failed to get page title",
     "failed to get window handle"}

\* C14: a string command whose request failed at the transport level
\* reports the transport error only, and one whose response value is null
\* reports its "failed to get ..." error only; no call reports both.
C14_NullDistinctFromTransport ==
    call.op \in StringCommands =>
        /\ call.resp.err = "transport error"
              => call.reports = <<"transport error">>
        /\ (call.resp.err = "nil" /\ call.resp.value.type = "null")
              => (Len(call.reports) = 1
                  /\ call.reports[1] \in NoValueMessages)

\* C15: NewElement sends no command and leaves the remote identifier
\* absent; the new handle holds the selector, the strategy and the settings
\* it was created from, and the session.
C15_NewElementLazy ==
    [][Len(elements') > Len(elements) =>
          /\ call' = call
          /\ ncmds' = ncmds
          /\ remoteGen' = remoteGen
          /\ LET e == elements'[Len(elements')] IN
                /\ e.webID = NoID
                /\ e.Selector \in Selectors
                /\ e.Session = SessionID
                /\ e.Settings \in 1..Len(heap)
                /\ e.SelectorType = heap[e.Settings].SelectorType]_vars

C15_Witness ==
    /\ Len(elements) = 1
    /\ elements[1].webID = NoID
    /\ call.op = "GetTitle"
    /\ Len(call.requests) = 1

\* C16: once an operation on a handle has received a stale-element
\* classification and the program goes on, the handle's cached identifier
\* is invalidated, so that the next operation has to find the element again.
C16_StaleInvalidatesID ==
    ~halted =>
        \A i \in DOMAIN elements :
            elements[i].stale => elements[i].webID = NoID

\* C17: SwitchToFrame with an element sends the find-element requests of the
\* resolution (none when an identifier is cached) before the frame request,
\* and the frame request carries the identifier the handle then holds;
\* SwitchToFrame with nil sends exactly one frame request, with id null.
C17_SwitchToFrameOrder ==
    call.op = "SwitchToFrame" =>
        IF call.elem = 0
        THEN call.requests = <<FrameRequest(NullID)>>
        ELSE LET n == Len(call.requests)
                 frames == {i \in 1..n : call.requests[i].kind = "frame"}
             IN /\ frames \subseteq {n}
                /\ \A i \in 1..n :
                      i \notin frames => call.requests[i] = FindRequest
                /\ (call.hadID => n = 1)
                /\ (~call.hadID => n >= 2 \/ frames = {})
                /\ (frames = {} => halted)
                /\ (frames # {} => call.requests[n].id
                                      = elements[call.elem].webID)

C17_Witness ==
    /\ call.op = "SwitchToFrame"
    /\ call.elem = 1
    /\ ~call.hadID
    /\ Len(call.requests) = 3
    /\ call.requests[3] = FrameRequest(2)
    /\ call.resp.err = "nil"

\* the names TakeScreenshot accepts
AcceptedNames ==
    {<<"a", ".", "p", "n", "g">>, <<"a", ".", "j", "p", "g">>,
     <<"a", ".", "j", "p", "e", "g">>}

\* C20: TakeScreenshot with a name that does not end in .png, .jpg or .jpeg
\* reports exactly one error, sends no request and creates no file; a file
\* is created only after a successful request whose value is a string.
C20_ScreenshotNameChecked ==
    /\ shots \subseteq AcceptedNames
    /\ call.op = "TakeScreenshot" =>
          /\ call.name \notin AcceptedNames =>
                /\ Len(call.reports) = 1
                /\ call.requests = <<>>
                /\ ~call.wrote
          /\ call.wrote =>
                /\ call.requests = <<PlainRequest("screenshot")>>
                /\ call.resp.err = "nil"
                /\ call.resp.value.type = "string"
                /\ call.name \in shots

C20_Witness ==
    /\ call.op = "TakeScreenshot"
    /\ call.name = <<"a", ".", "g", "i", "f">>
    /\ Len(call.reports) = 1
    /\ shots = {<<"a", ".", "j", "p", "g">>}

====
